---- MODULE Spec2Model ----
(***************************************************************************)
(* Model of the push registration coordinator (class Push, push.ts).      *)
(*                                                                         *)
(* One coordinator instance, driven by a single-threaded event loop: each  *)
(* action is one public call or one callback run to completion.            *)
(* Collaborators are modelled by their contract: the event bus (once),     *)
(* the key-value store, the HTTP client (asynchronous completion           *)
(* callback), and the native plugin (every init returns a new handle; a    *)
(* handle dispatches an event to its handlers in subscription order and    *)
(* may fire 'registration' any number of times).  The handle created for   *)
(* the i-th admitted register() call is numbered i.                        *)
(*                                                                         *)
(* Spec is the whole coordinator; SpecProtocol leaves saveToken() out;     *)
(* SpecLocks is one construction with the plugin present and saves of    *)
(* the cached token only; SpecSave leaves register() out;                  *)
(* SpecConfig exercises the Config helper (config.ts) alone.               *)
(***************************************************************************)
EXTENDS Integers, Sequences, FiniteSets, Bags, TLC

\* ---------------------------------------------------------------- bounds
\* Number of register() calls that may be admitted in one behaviour.
MaxRegister == 3
\* Number of POST /push/tokens calls that may be outstanding at once.
MaxSave == 2

\* Registration identifiers the native plugin may deliver.
RegistrationIds == {"a", "b"}

\* ------------------------------------------------------------ error values
ErrRegistration == "Another registration is already in progress."
ErrPluginNotFound == "Push plugin not found! See logs."
ErrSaveToken == "A token save operation is already in progress."
ErrUnregister == "An unregister operation is already in progress."
ErrTransport == "transport error"
ErrTypeError == "TypeError"

VARIABLES
    blockRegistration,  \* push.ts:53
    blockUnregister,    \* push.ts:54
    blockSaveToken,     \* push.ts:55
    registered,         \* push.ts:56
    _token,             \* push.ts:58   the cached token object, or NullToken
    storage,            \* the record stored under 'push_token', or NoRecord
    plugin,             \* push.ts:42   0, or the handle returned by init
    pluginPresent,      \* window.PushNotification is defined
    regCalls,           \* state of the deferred of each admitted register() call
    saves,              \* bag of the outstanding POST /push/tokens calls
    unregs,             \* outstanding POST /push/tokens/invalidate calls
    installs,           \* number of times _callbackRegistration has run
    last,               \* what the last step did (observation only)
    isAndroid,          \* device.isAndroid()
    options,            \* push.ts:62   the options after construction
    settings            \* config.ts:11 the registered cloud config

\* What no call or callback of the coordinator writes after construction.
envVars == <<isAndroid, options, settings>>

vars == <<blockRegistration, blockUnregister, blockSaveToken, registered,
          _token, storage, plugin, pluginPresent, regCalls, saves, unregs,
          installs, last, isAndroid, options, settings>>

\* ------------------------------------------------------------ value objects
\* A falsy token reference (null / undefined).
NullToken == [obj |-> FALSE, token |-> "", registered |-> FALSE, saved |-> FALSE]

\* new PushToken(token): both status flags start false.
PushToken(token) ==
    [obj |-> TRUE, token |-> token, registered |-> FALSE, saved |-> FALSE]

\* No record under the fixed key: storage.get returns undefined.
NoRecord == [present |-> FALSE, token |-> ""]

\* storage.set('push_token', {token: t})
StorageSet(t) == [present |-> TRUE, token |-> t]

\* storage.delete('push_token')
StorageDelete == NoRecord

\* ------------------------------------------------------ token getter/setter
\* get token(): reading .token of an absent record raises a TypeError.
TokenGetThrows(tok, store) == ~tok.obj /\ ~store.present

\* A getter that returns the cache without loading it from the store.
TokenGet_NoLoad(tok, store) == tok

\* get token(): the cache after the read, which is also the value returned.
TokenGet(tok, store) == IF ~tok.obj THEN PushToken(store.token) ELSE tok

\* A setter whose test is inverted: deletes for a token, writes for null.
TokenSetStorage_Inverted(val) ==
    IF val.obj THEN StorageDelete ELSE StorageSet(val.token)

\* set token(val): the persisted record after the write.
TokenSetStorage(val) ==
    IF ~val.obj THEN StorageDelete ELSE StorageSet(val.token)

\* set token(val): the cache after the write.
TokenSetCache(val) == val

\* ----------------------------------------------------------- observations
\* What a step did: the operation, how the call or callback ended, the
\* error it raised or rejected with, the remote records it sent, the bus
\* events it emitted, and the value it resolved with or returned.
Obs(op, outcome, err, sent, emits, val) ==
    [op |-> op, outcome |-> outcome, err |-> err, sent |-> sent,
     emits |-> emits, val |-> val, args |-> <<>>]

\* The same, with the arguments the call was given.
ObsArgs(op, outcome, err, sent, emits, val, args) ==
    [Obs(op, outcome, err, sent, emits, val) EXCEPT !.args = args]

\* The deferreds of register() calls that are admitted and not yet settled.
InFlight == {i \in DOMAIN regCalls : regCalls[i] \in {"waiting", "ready"}}

\* emitter.once('device:ready', cb): the one-shot handlers still subscribed.
OnceSubscribers == {i \in DOMAIN regCalls : regCalls[i] = "waiting"}

\* The plugin handles that exist: init ran for these calls.
Handles == {i \in DOMAIN regCalls : regCalls[i] \in {"ready", "resolved"}}

\* A pending save holds a reference to a token object: the cached object
\* (CachedRef) or another one, given by its value.
CachedRef == [cached |-> TRUE, token |-> NullToken]

\* A reference to a token object that is not the cached one.
OtherRef(token) == [cached |-> FALSE, token |-> token]

\* When the cache is given a new object, a save that referred to the cached
\* object keeps the old object, which is no longer the cached one.
Detach(ss) ==
    IF CachedRef \in DOMAIN ss
    THEN [e \in DOMAIN ss \ {CachedRef} |-> ss[e]]
            (+) [e \in {OtherRef(_token)} |-> ss[CachedRef]]
    ELSE ss

\* ------------------------------------------------------------ constructor
\* options.pluginConfig left undefined.
NoPluginConfig == [defined |-> FALSE, android |-> FALSE, senderID |-> ""]

\* The options a coordinator may be constructed with: a sender_id, or a
\* pluginConfig that carries the sender id itself.  (With neither, on
\* Android, init would be given an undefined config; what the native plugin
\* does with it is outside this repository.)
OptionsInputs ==
    { [sender_id |-> "gcm", pluginConfig |-> NoPluginConfig],
      [sender_id |-> "", pluginConfig |->
          [defined |-> TRUE, android |-> TRUE, senderID |-> "gcm"]] }

\* The constructor found no sender_id on Android, logged the error and
\* returned early.
MissingSenderId(android, opts) == android /\ opts.sender_id = ""

\* this.options after the constructor: on Android without sender_id the
\* options as given; otherwise pluginConfig defaulted and, on Android, the
\* sender id injected where pluginConfig has none.
Constructor(android, opts) ==
    IF MissingSenderId(android, opts) THEN opts
    ELSE LET pc == IF ~opts.pluginConfig.defined
                   THEN [defined |-> TRUE, android |-> FALSE, senderID |-> ""]
                   ELSE opts.pluginConfig
         IN  [opts EXCEPT !.pluginConfig =
                 IF android
                 THEN [defined |-> TRUE, android |-> TRUE,
                       senderID |-> IF pc.senderID = "" THEN opts.sender_id
                                    ELSE pc.senderID]
                 ELSE pc]

\* ------------------------------------------------------------- register()
\* A register() that also refuses while an unregister holds its lock.
Register_ChecksUnregisterLock ==
    IF blockRegistration \/ blockUnregister
    THEN /\ last' = Obs("register", "rejected", ErrRegistration, <<>>, <<>>, NullToken)
         /\ UNCHANGED <<blockRegistration, blockUnregister, blockSaveToken,
                        registered, _token, storage, plugin, pluginPresent,
                        regCalls, saves, unregs, installs>>
    ELSE /\ Len(regCalls) < MaxRegister
         /\ blockRegistration' = TRUE
         /\ regCalls' = Append(regCalls, "waiting")
         /\ last' = Obs("register", "admitted", "", <<>>, <<>>, NullToken)
         /\ UNCHANGED <<blockUnregister, blockSaveToken, registered, _token,
                        storage, plugin, pluginPresent, saves, unregs, installs>>

\* register(): rejected while the lock is held, else takes the lock and
\* subscribes a one-shot handler to 'device:ready'.
Register ==
    IF blockRegistration
    THEN /\ last' = Obs("register", "rejected", ErrRegistration, <<>>, <<>>, NullToken)
         /\ UNCHANGED <<blockRegistration, blockUnregister, blockSaveToken,
                        registered, _token, storage, plugin, pluginPresent,
                        regCalls, saves, unregs, installs>>
    ELSE /\ Len(regCalls) < MaxRegister
         /\ blockRegistration' = TRUE
         /\ regCalls' = Append(regCalls, "waiting")
         /\ last' = Obs("register", "admitted", "", <<>>, <<>>, NullToken)
         /\ UNCHANGED <<blockUnregister, blockSaveToken, registered, _token,
                        storage, plugin, pluginPresent, saves, unregs, installs>>

\* _getPushPlugin(): the global lookup.
GetPushPlugin == pluginPresent

\* The 'device:ready' handler of one register() call: with a plugin, init
\* and subscribe; without, reject the call.
OnDeviceReady(call) ==
    IF GetPushPlugin THEN "ready" ELSE "rejected"

\* A 'device:ready' whose handlers stay subscribed: the handler of every
\* call admitted so far runs again.
DeviceReady_StaysSubscribed ==
    LET subs == DOMAIN regCalls
        inits == IF GetPushPlugin THEN subs ELSE {}
    IN  /\ regCalls' = [i \in DOMAIN regCalls |->
                           IF regCalls[i] = "waiting" THEN OnDeviceReady(regCalls[i])
                           ELSE regCalls[i]]
        /\ plugin' = IF inits # {} THEN CHOOSE i \in inits : \A j \in inits : j <= i
                     ELSE plugin
        /\ installs' = installs + Cardinality(inits)
        /\ registered' = (registered \/ inits # {})
        /\ last' = ObsArgs("deviceReady",
                       IF subs = {} THEN "none" ELSE IF GetPushPlugin THEN "init" ELSE "rejected",
                       IF subs # {} /\ ~GetPushPlugin THEN ErrPluginNotFound ELSE "",
                       <<>>, <<>>, NullToken,
                       IF inits # {} THEN <<options.pluginConfig>> ELSE <<>>)
        /\ UNCHANGED <<blockRegistration, blockUnregister, blockSaveToken,
                       _token, storage, pluginPresent, saves, unregs>>

\* The bus emits 'device:ready': every one-shot handler subscribed runs, in
\* subscription order, and is unsubscribed.
DeviceReady ==
    LET subs == OnceSubscribers
        inits == IF GetPushPlugin THEN subs ELSE {}
    IN  /\ regCalls' = [i \in DOMAIN regCalls |->
                           IF i \in subs THEN OnDeviceReady(regCalls[i]) ELSE regCalls[i]]
        /\ plugin' = IF inits # {} THEN CHOOSE i \in inits : \A j \in inits : j <= i
                     ELSE plugin
        /\ installs' = installs + Cardinality(inits)
        /\ registered' = (registered \/ inits # {})
        /\ last' = ObsArgs("deviceReady",
                       IF subs = {} THEN "none" ELSE IF GetPushPlugin THEN "init" ELSE "rejected",
                       IF subs # {} /\ ~GetPushPlugin THEN ErrPluginNotFound ELSE "",
                       <<>>, <<>>, NullToken,
                       IF inits # {} THEN <<options.pluginConfig>> ELSE <<>>)
        /\ UNCHANGED <<blockRegistration, blockUnregister, blockSaveToken,
                       _token, storage, pluginPresent, saves, unregs>>

\* The 'registration' handler subscribed by register(), applied to the
\* lock, the cache and the store.
RegistrationHandler(c, registrationId) ==
    LET val == PushToken(registrationId)
        cached == TokenSetCache(val)
    IN  [blockRegistration |-> FALSE,
         token |-> [TokenGet(cached, TokenSetStorage(val)) EXCEPT !.registered = TRUE],
         storage |-> TokenSetStorage(val)]

\* The permanent 'registration' handler subscribed by _callbackRegistration.
CallbackRegistrationHandler(c, registrationId) ==
    LET val == PushToken(registrationId)
    IN  [c EXCEPT !.token = TokenSetCache(val), !.storage = TokenSetStorage(val)]

\* The handlers a handle runs for one 'registration' event, in the order
\* they were subscribed: register()'s own, then the permanent one.
RegistrationDispatch(c, registrationId) ==
    LET c1 == RegistrationHandler(c, registrationId)
    IN  [first |-> c1, final |-> CallbackRegistrationHandler(c1, registrationId)]

\* The plugin fires 'registration' on handle h with identifier id.
PluginRegistration(h, id) ==
    LET c == [blockRegistration |-> blockRegistration, token |-> _token,
              storage |-> storage]
        d == RegistrationDispatch(c, id)
    IN  /\ h \in Handles
        /\ blockRegistration' = d.final.blockRegistration
        /\ _token' = d.final.token
        /\ storage' = d.final.storage
        /\ regCalls' = [regCalls EXCEPT ![h] =
                           IF @ = "ready" THEN "resolved" ELSE @]
        /\ saves' = Detach(saves)
        /\ last' = Obs("registration",
                       IF regCalls[h] = "ready" THEN "resolved" ELSE "none",
                       "", <<>>, <<[event |-> "push:register", token |-> id]>>,
                       IF regCalls[h] = "ready" THEN d.first.token ELSE NullToken)
        /\ UNCHANGED <<blockUnregister, blockSaveToken, registered, plugin,
                       pluginPresent, unregs, installs>>

\* The plugin fires 'notification' on handle h.
PluginNotification(h) ==
    /\ h \in Handles
    /\ last' = Obs("notification", "none", "", <<>>,
                   <<[event |-> "push:notification", token |-> ""]>>, NullToken)
    /\ UNCHANGED <<blockRegistration, blockUnregister, blockSaveToken,
                   registered, _token, storage, plugin, pluginPresent,
                   regCalls, saves, unregs, installs>>

\* The plugin fires 'error' on handle h.
PluginError(h) ==
    /\ h \in Handles
    /\ last' = Obs("error", "none", "", <<>>,
                   <<[event |-> "push:error", token |-> ""]>>, NullToken)
    /\ UNCHANGED <<blockRegistration, blockUnregister, blockSaveToken,
                   registered, _token, storage, plugin, pluginPresent,
                   regCalls, saves, unregs, installs>>

\* ------------------------------------------------------------------ Config
\* The value of a property that is not there.
Undefined == "undefined"

\* JavaScript truthiness of a string-or-undefined value.
Truthy(v) == v \notin {Undefined, ""}

\* The object literal {}.
EmptyMap == [n \in {} |-> ""]

\* map[name] on a string-keyed object.
Lookup(map, name) == IF name \in DOMAIN map THEN map[name] ELSE Undefined

\* The built-in URL map.
urls == [api |-> "https://api.ionic.io"]

\* The settings field before register() is called.
NoSettings ==
    [registered |-> FALSE, hasCore |-> FALSE, core |-> EmptyMap,
     hasUrls |-> FALSE, urls |-> EmptyMap]

\* Config.get(name).
Config_get(s, name) ==
    IF ~s.registered \/ ~s.hasCore THEN Undefined ELSE Lookup(s.core, name)

\* A getURL that returns the configured entry whether or not it is set.
Config_getURL_NoDefault(s, name) ==
    LET u == IF s.registered /\ s.hasCore /\ s.hasUrls THEN s.urls ELSE EmptyMap
    IN  Lookup(u, name)

\* Config.getURL(name).
Config_getURL(s, name) ==
    LET u == IF s.registered /\ s.hasCore /\ s.hasUrls THEN s.urls ELSE EmptyMap
    IN  IF Truthy(Lookup(u, name)) THEN Lookup(u, name) ELSE Lookup(urls, name)

\* ------------------------------------------------------------- saveToken()
\* The application id the application configures.
AppId == "app"

\* userService.current().id
UserId == "u1"

\* A record that carries user_id whenever the session is authenticated.
ServiceTokenData_IgnoresOption(token, ignore_user, isAuthenticated) ==
    [token |-> token.token, app_id |-> Config_get(settings, "app_id"),
     user_id |-> IF isAuthenticated THEN UserId ELSE ""]

\* The record saveToken sends: user_id only for an authenticated session
\* and only when ignore_user is unset.
ServiceTokenData(token, ignore_user, isAuthenticated) ==
    [token |-> token.token, app_id |-> Config_get(settings, "app_id"),
     user_id |-> IF ~ignore_user /\ isAuthenticated THEN UserId ELSE ""]

\* The token objects a caller may hold apart from the cached one.
CallerTokens == {[PushToken(x) EXCEPT !.registered = TRUE] : x \in RegistrationIds}

\* saveToken(token, options).  cached: the caller passes the cached object.
\* The lock is tested and, in both completion callbacks, cleared; no
\* statement of the method sets it.
SaveToken(token, cached, ignore_user, isAuthenticated) ==
    LET tokenData == ServiceTokenData(token, ignore_user, isAuthenticated)
    IN  IF ~blockSaveToken
        THEN /\ BagCardinality(saves) < MaxSave
             /\ saves' = saves (+) SetToBag({IF cached THEN CachedRef ELSE OtherRef(token)})
             /\ last' = ObsArgs("saveToken", "admitted", "", <<tokenData>>, <<>>, NullToken,
                                [token |-> token, ignore_user |-> ignore_user,
                                 isAuthenticated |-> isAuthenticated])
             /\ UNCHANGED <<blockRegistration, blockUnregister, blockSaveToken,
                            registered, _token, storage, plugin, pluginPresent,
                            regCalls, unregs, installs>>
        ELSE /\ last' = Obs("saveToken", "rejected", ErrSaveToken, <<>>, <<>>, NullToken)
             /\ UNCHANGED <<blockRegistration, blockUnregister, blockSaveToken,
                            registered, _token, storage, plugin, pluginPresent,
                            regCalls, saves, unregs, installs>>

\* A completion callback that marks the token saved before looking at err.
SaveTokenEnd_MarksFirst(call, err) ==
    LET token == IF call.cached THEN _token ELSE call.token
    IN  /\ BagIn(call, saves)
        /\ blockSaveToken' = FALSE
        /\ saves' = saves (-) SetToBag({call})
        /\ last' = ObsArgs("saveTokenEnd", IF err THEN "rejected" ELSE "resolved",
                           IF err THEN ErrTransport ELSE "", <<>>, <<>>,
                           [token EXCEPT !.saved = TRUE],
                           [token |-> token, cached |-> call.cached])
        /\ _token' = IF call.cached THEN [_token EXCEPT !.saved = TRUE] ELSE _token
        /\ UNCHANGED <<blockRegistration, blockUnregister, registered, storage,
                       plugin, pluginPresent, regCalls, unregs, installs>>

\* The completion callback of an outstanding POST /push/tokens, issued by
\* the saveToken call that was given the token object `call` refers to.
SaveTokenEnd(call, err) ==
    LET token == IF call.cached THEN _token ELSE call.token
    IN  /\ BagIn(call, saves)
        /\ blockSaveToken' = FALSE
        /\ saves' = saves (-) SetToBag({call})
        /\ IF err
           THEN /\ last' = ObsArgs("saveTokenEnd", "rejected", ErrTransport, <<>>, <<>>,
                                   token, [token |-> token, cached |-> call.cached])
                /\ UNCHANGED _token
           ELSE /\ last' = ObsArgs("saveTokenEnd", "resolved", "", <<>>, <<>>,
                                   [token EXCEPT !.saved = TRUE],
                                   [token |-> token, cached |-> call.cached])
                /\ _token' = IF call.cached THEN [_token EXCEPT !.saved = TRUE]
                             ELSE _token
        /\ UNCHANGED <<blockRegistration, blockUnregister, registered, storage,
                       plugin, pluginPresent, regCalls, unregs, installs>>

\* ------------------------------------------------------------ unregister()
\* A sequence without its i-th element.
Remove(seq, i) == SubSeq(seq, 1, i - 1) \o SubSeq(seq, i + 1, Len(seq))

\* unregister().  The native plugin.unregister call is fire-and-forget and
\* touches nothing modelled here.
Unregister ==
    IF ~blockUnregister
    THEN IF TokenGetThrows(_token, storage)
         THEN \* the getter raises before any state is written
              /\ last' = Obs("unregister", "threw", ErrTypeError, <<>>, <<>>, NullToken)
              /\ UNCHANGED <<blockRegistration, blockUnregister, blockSaveToken,
                             registered, _token, storage, plugin, pluginPresent,
                             regCalls, saves, unregs, installs>>
         ELSE LET pushToken == TokenGet(_token, storage)
                  tokenData == [token |-> pushToken.token, app_id |-> Config_get(settings, "app_id"), user_id |-> ""]
              IN  IF ~pushToken.obj
                  THEN /\ blockUnregister' = TRUE
                       /\ last' = Obs("unregister", "resolved", "", <<>>, <<>>, NullToken)
                       /\ UNCHANGED <<blockRegistration, blockSaveToken, registered,
                                      _token, storage, plugin, pluginPresent,
                                      regCalls, saves, unregs, installs>>
                  ELSE /\ _token' = pushToken
                       /\ unregs' = Append(unregs, pushToken.token)
                       /\ blockUnregister' = TRUE
                       /\ last' = Obs("unregister", "admitted", "", <<tokenData>>, <<>>, NullToken)
                       /\ UNCHANGED <<blockRegistration, blockSaveToken, registered,
                                      storage, plugin, pluginPresent, regCalls,
                                      saves, installs>>
    ELSE /\ blockUnregister' = TRUE
         /\ last' = Obs("unregister", "rejected", ErrUnregister, <<>>, <<>>, NullToken)
         /\ UNCHANGED <<blockRegistration, blockSaveToken, registered, _token,
                        storage, plugin, pluginPresent, regCalls, saves, unregs,
                        installs>>

\* A completion callback that clears the token before looking at err.
UnregisterEnd_ClearsFirst(i, err) ==
    /\ i \in DOMAIN unregs
    /\ blockUnregister' = FALSE
    /\ unregs' = Remove(unregs, i)
    /\ _token' = TokenSetCache(NullToken)
    /\ storage' = StorageDelete
    /\ saves' = Detach(saves)
    /\ last' = Obs("unregisterEnd", IF err THEN "rejected" ELSE "resolved",
                   IF err THEN ErrTransport ELSE "", <<>>, <<>>, NullToken)
    /\ UNCHANGED <<blockRegistration, blockSaveToken, registered, plugin,
                   pluginPresent, regCalls, installs>>

\* The completion callback of the i-th outstanding invalidate call.
UnregisterEnd(i, err) ==
    /\ i \in DOMAIN unregs
    /\ blockUnregister' = FALSE
    /\ unregs' = Remove(unregs, i)
    /\ IF err
       THEN /\ last' = Obs("unregisterEnd", "rejected", ErrTransport, <<>>, <<>>, NullToken)
            /\ UNCHANGED <<_token, storage, saves>>
       ELSE /\ _token' = TokenSetCache(NullToken)
            /\ storage' = TokenSetStorage(NullToken)
            /\ saves' = Detach(saves)
            /\ last' = Obs("unregisterEnd", "resolved", "", <<>>, <<>>, NullToken)
    /\ UNCHANGED <<blockRegistration, blockSaveToken, registered, plugin,
                   pluginPresent, regCalls, installs>>

\* A caller reads push.token.
ReadToken ==
    IF TokenGetThrows(_token, storage)
    THEN /\ last' = Obs("readToken", "threw", ErrTypeError, <<>>, <<>>, NullToken)
         /\ UNCHANGED <<blockRegistration, blockUnregister, blockSaveToken,
                        registered, _token, storage, plugin, pluginPresent,
                        regCalls, saves, unregs, installs>>
    ELSE /\ _token' = TokenGet(_token, storage)
         /\ last' = Obs("readToken", "returned", "", <<>>, <<>>, _token')
         /\ UNCHANGED <<blockRegistration, blockUnregister, blockSaveToken,
                        registered, storage, plugin, pluginPresent, regCalls,
                        saves, unregs, installs>>

\* ------------------------------------------------------------ specification
\* The records a previous session may have left in the store.
StoredAtStart == {NoRecord, StorageSet("a")}

\* The cloud config the application registered before using the coordinator.
AppSettings ==
    [registered |-> TRUE, hasCore |-> TRUE, core |-> [app_id |-> AppId],
     hasUrls |-> FALSE, urls |-> EmptyMap]

InitPush ==
    /\ isAndroid \in BOOLEAN
    /\ \E o \in OptionsInputs : options = Constructor(isAndroid, o)
    /\ blockRegistration = FALSE
    /\ blockUnregister = FALSE
    /\ blockSaveToken = FALSE
    /\ registered = FALSE
    /\ _token = NullToken
    /\ storage \in StoredAtStart
    /\ plugin = 0
    /\ pluginPresent \in BOOLEAN
    /\ regCalls = <<>>
    /\ saves = EmptyBag
    /\ unregs = <<>>
    /\ installs = 0
    /\ last = Obs("init", "none", "", <<>>, <<>>, NullToken)

Init == InitPush /\ settings = AppSettings

Next ==
    \/ Register /\ UNCHANGED envVars
    \/ DeviceReady /\ UNCHANGED envVars
    \/ \E h \in DOMAIN regCalls, id \in RegistrationIds :
          PluginRegistration(h, id) /\ UNCHANGED envVars
    \/ \E h \in DOMAIN regCalls : PluginNotification(h) /\ UNCHANGED envVars
    \/ \E h \in DOMAIN regCalls : PluginError(h) /\ UNCHANGED envVars
    \/ \E t \in CallerTokens, ignore_user \in BOOLEAN, auth \in BOOLEAN :
          SaveToken(t, FALSE, ignore_user, auth) /\ UNCHANGED envVars
    \/ \E ignore_user \in BOOLEAN, auth \in BOOLEAN :
          _token.obj /\ SaveToken(_token, TRUE, ignore_user, auth) /\ UNCHANGED envVars
    \/ \E call \in BagToSet(saves), err \in BOOLEAN :
          SaveTokenEnd(call, err) /\ UNCHANGED envVars
    \/ Unregister /\ UNCHANGED envVars
    \/ \E i \in DOMAIN unregs, err \in BOOLEAN : UnregisterEnd(i, err) /\ UNCHANGED envVars
    \/ ReadToken /\ UNCHANGED envVars

Spec == Init /\ [][Next]_vars

\* register(), unregister(), the plugin's events and reads of the token,
\* without saveToken().
NextProtocol ==
    \/ Register /\ UNCHANGED envVars
    \/ DeviceReady /\ UNCHANGED envVars
    \/ \E h \in DOMAIN regCalls, id \in RegistrationIds :
          PluginRegistration(h, id) /\ UNCHANGED envVars
    \/ \E h \in DOMAIN regCalls : PluginNotification(h) /\ UNCHANGED envVars
    \/ \E h \in DOMAIN regCalls : PluginError(h) /\ UNCHANGED envVars
    \/ Unregister /\ UNCHANGED envVars
    \/ \E i \in DOMAIN unregs, err \in BOOLEAN : UnregisterEnd(i, err) /\ UNCHANGED envVars
    \/ ReadToken /\ UNCHANGED envVars

SpecProtocol == Init /\ [][NextProtocol]_vars

\* One construction (not Android, sender_id given) with the plugin present.
InitLocks == Init /\ pluginPresent /\ ~isAndroid /\ options.sender_id = "gcm"

\* register(), saveToken(push.token) and unregister() together, with their
\* callbacks.
NextLocks ==
    \/ Register /\ UNCHANGED envVars
    \/ DeviceReady /\ UNCHANGED envVars
    \/ \E h \in DOMAIN regCalls, id \in RegistrationIds :
          PluginRegistration(h, id) /\ UNCHANGED envVars
    \/ \E ignore_user \in BOOLEAN, auth \in BOOLEAN :
          _token.obj /\ SaveToken(_token, TRUE, ignore_user, auth) /\ UNCHANGED envVars
    \/ \E call \in BagToSet(saves), err \in BOOLEAN :
          SaveTokenEnd(call, err) /\ UNCHANGED envVars
    \/ Unregister /\ UNCHANGED envVars
    \/ \E i \in DOMAIN unregs, err \in BOOLEAN : UnregisterEnd(i, err) /\ UNCHANGED envVars

SpecLocks == InitLocks /\ [][NextLocks]_vars

\* saveToken() with either kind of token, reads of the token and unregister();
\* register() is never called.
NextSave ==
    \/ ReadToken /\ UNCHANGED envVars
    \/ \E t \in CallerTokens, ignore_user \in BOOLEAN, auth \in BOOLEAN :
          SaveToken(t, FALSE, ignore_user, auth) /\ UNCHANGED envVars
    \/ \E ignore_user \in BOOLEAN, auth \in BOOLEAN :
          _token.obj /\ SaveToken(_token, TRUE, ignore_user, auth) /\ UNCHANGED envVars
    \/ \E call \in BagToSet(saves), err \in BOOLEAN :
          SaveTokenEnd(call, err) /\ UNCHANGED envVars
    \/ Unregister /\ UNCHANGED envVars
    \/ \E i \in DOMAIN unregs, err \in BOOLEAN : UnregisterEnd(i, err) /\ UNCHANGED envVars

SpecSave == Init /\ [][NextSave]_vars

\* The URL maps and core settings an application may register.
UrlInputs ==
    { [api |-> "https://custom"], [api |-> ""], [web |-> "https://web"],
      [api |-> "https://custom", web |-> "https://web"], EmptyMap }
CoreInputs == { [app_id |-> AppId], [app_id |-> AppId, dev_push |-> "true"], EmptyMap }
SettingsInputs ==
    { [registered |-> TRUE, hasCore |-> FALSE, core |-> EmptyMap,
       hasUrls |-> FALSE, urls |-> EmptyMap] }
    \cup { [registered |-> TRUE, hasCore |-> TRUE, core |-> c,
            hasUrls |-> FALSE, urls |-> EmptyMap] : c \in CoreInputs }
    \cup { [registered |-> TRUE, hasCore |-> TRUE, core |-> c,
            hasUrls |-> TRUE, urls |-> u] : c \in CoreInputs, u \in UrlInputs }

\* The names the helper is asked for.
SettingNames == {"app_id", "dev_push"}
UrlNames == {"api", "web", "push"}

pushVars ==
    <<blockRegistration, blockUnregister, blockSaveToken, registered, _token,
      storage, plugin, pluginPresent, regCalls, saves, unregs, installs,
      isAndroid, options>>

\* config.register(settings)
ConfigRegister(s) ==
    /\ settings' = s
    /\ last' = Obs("config.register", "none", "", <<>>, <<>>, NullToken)
    /\ UNCHANGED pushVars

\* A call of config.get(name), its result observed.
CallGet(name) ==
    /\ last' = ObsArgs("config.get", "returned", "", <<>>, <<>>, NullToken,
                       [name |-> name, value |-> Config_get(settings, name)])
    /\ UNCHANGED <<pushVars, settings>>

\* A call of config.getURL(name), its result observed.
CallGetURL(name) ==
    /\ last' = ObsArgs("config.getURL", "returned", "", <<>>, <<>>, NullToken,
                       [name |-> name, value |-> Config_getURL(settings, name)])
    /\ UNCHANGED <<pushVars, settings>>

\* A Config on which nothing is registered yet, beside a fresh coordinator.
InitConfig ==
    /\ InitPush /\ pluginPresent /\ ~isAndroid /\ options.sender_id = "gcm"
    /\ storage = NoRecord
    /\ settings = NoSettings

NextConfig ==
    \/ \E s \in SettingsInputs : ConfigRegister(s)
    \/ \E name \in SettingNames : CallGet(name)
    \/ \E name \in UrlNames : CallGetURL(name)

SpecConfig == InitConfig /\ [][NextConfig]_vars

\* -------------------------------------------------------------- properties
\* The identifier the plugin delivered in the 'registration' event that was
\* the last step.
EventId == last.emits[1].token

\* C1: at most one register() call is in flight (admitted and not yet
\* settled) at any time, whatever the interleaving of register() calls,
\* device-ready signals and 'registration' events.
C1_AtMostOneInFlight == Cardinality(InFlight) <= 1

\* C2: at most one remote 'create token' call of saveToken() is outstanding
\* at any time.
C2_OneSaveOutstanding == BagCardinality(saves) <= 1

\* C3: when the device-ready handler rejects a register() call because the
\* plugin is absent, the registration lock is released.
C3_PluginAbsentReleasesLock ==
    (last.op = "deviceReady" /\ last.outcome = "rejected") => ~blockRegistration

\* C4: the unregister lock is held exactly while one invalidate call is
\* outstanding: a call that lands with the lock free ends with the lock
\* cleared once its completion callback has run (or at once when it issues
\* no remote call); a call that lands while one is in flight is rejected,
\* issues no remote call and leaves the in-flight call outstanding, whose
\* completion callback then clears the lock.
C4_UnregisterLock ==
    /\ Len(unregs) <= 1
    /\ blockUnregister <=> (unregs # <<>>)
    /\ last.op = "unregisterEnd" => ~blockUnregister
    /\ (last.op = "unregister" /\ last.outcome = "rejected") =>
           (last.sent = <<>> /\ Len(unregs) = 1)
    /\ (last.op = "unregister" /\ last.outcome \in {"resolved", "threw"}) =>
           (last.sent = <<>> /\ ~blockUnregister)

\* An unregister completion callback has just run and cleared the lock.
C4_Witness == last.op = "unregisterEnd" /\ ~blockUnregister /\ unregs = <<>>

\* C5: unregister() called when no token is cached or stored resolves
\* immediately and issues no remote call.
C5_NoTokenResolves ==
    (last.op = "unregister" /\ last.outcome # "rejected"
        /\ ~_token.obj /\ ~storage.present)
    => (last.outcome = "resolved" /\ last.sent = <<>>)

\* C6: after a 'registration' event for an admitted register() call has been
\* handled by all subscribed handlers, the current token has registered set
\* and equals the token the call resolved with.
C6_RegisteredAfterEvent ==
    (last.op = "registration" /\ last.outcome = "resolved")
    => (_token.registered /\ _token = last.val)

\* C7: when the plugin fires 'registration' with identifier X for an
\* admitted register() call, the call resolves with a token whose string is
\* X and whose registered flag is set, the persisted record is {token: X},
\* and loading the record yields the token string X.
C7_ResolvesWithToken ==
    (last.op = "registration" /\ last.outcome = "resolved")
    => /\ last.val.obj
       /\ last.val.token = EventId
       /\ last.val.registered
       /\ storage = [present |-> TRUE, token |-> EventId]
       /\ ~TokenGetThrows(NullToken, storage)
       /\ TokenGet(NullToken, storage).token = EventId

\* A register() call has just resolved on a 'registration' event with "b".
C7_Witness ==
    /\ last.op = "registration"
    /\ last.outcome = "resolved"
    /\ EventId = "b"
    /\ storage.present

\* C8: when the invalidate call of an admitted unregister() succeeds, the
\* cached token and the persisted record are both cleared and the call
\* resolves.
C8_SuccessClears ==
    (last.op = "unregisterEnd" /\ last.err = "")
    => (last.outcome = "resolved" /\ ~_token.obj /\ ~storage.present)

\* An unregister has just succeeded.
C8_Witness ==
    last.op = "unregisterEnd" /\ last.outcome = "resolved" /\ ~storage.present

\* C9: when the invalidate call of an admitted unregister() fails, the call
\* rejects with the transport error, the failure callback leaves the cached
\* token and the persisted record as they were, and the unregister lock is
\* released; the unregister() call itself leaves the record as it was and
\* changes the cache only by loading it from the record.
C9_FailureKeepsToken ==
    [][ /\ (last'.op = "unregisterEnd" /\ last'.err = ErrTransport)
            => /\ last'.outcome = "rejected"
               /\ _token' = _token
               /\ storage' = storage
               /\ ~blockUnregister'
        /\ (last'.op = "unregister" /\ last'.outcome = "admitted")
            => /\ storage' = storage
               /\ _token' = IF _token.obj THEN _token ELSE PushToken(storage.token)
      ]_vars

\* An unregister has just failed, with a token cached and stored.
C9_Witness ==
    /\ last.op = "unregisterEnd"
    /\ last.outcome = "rejected"
    /\ _token.obj
    /\ storage.present
    /\ ~blockUnregister

\* C10: the permanent plugin subscriptions are installed at most once per
\* coordinator instance, however many register() calls are admitted.
C10_SubscribedOnce == installs <= 1


\* C11: a coordinator constructed on Android without a sender_id never
\* initializes the native plugin nor installs plugin subscriptions.
C11_InertWithoutSenderId ==
    MissingSenderId(isAndroid, options) => (installs = 0 /\ plugin = 0)


\* C12: the record an admitted saveToken(token, options) sends carries the
\* token string and the configured app_id, and carries user_id (the current
\* user's id) exactly when ignore_user is not set and the session is
\* authenticated.
C12_RecordUserId ==
    (last.op = "saveToken" /\ last.outcome = "admitted") =>
        LET tokenData == last.sent[1]
            arg == last.args
        IN  /\ tokenData.token = arg.token.token
            /\ tokenData.app_id = settings.core.app_id
            /\ (tokenData.user_id = UserId) <=>
                   (~arg.ignore_user /\ arg.isAuthenticated)
            /\ tokenData.user_id \in {UserId, ""}

C12_Witness ==
    /\ last.op = "saveToken" /\ last.outcome = "admitted"
    /\ last.args.ignore_user /\ last.args.isAuthenticated
    /\ last.sent[1].user_id = ""


\* C13: when the remote call of an admitted saveToken(token) succeeds, the
\* call resolves with that token and its saved flag is true; when it fails,
\* the call rejects with the underlying error, the saved flag is as it was,
\* and the cached token and the persisted record are unchanged.  Either way
\* the save lock is not held afterwards.
C13_SaveOutcome ==
    [][BagCardinality(saves') < BagCardinality(saves) =>
          /\ last'.op = "saveTokenEnd"
          /\ ~blockSaveToken'
          /\ \/ /\ last'.outcome = "resolved"
                /\ last'.val.saved
                /\ last'.val.token = last'.args.token.token
                /\ last'.args.cached => (_token'.saved /\ _token'.token = _token.token)
             \/ /\ last'.outcome = "rejected"
                /\ last'.err = ErrTransport
                /\ last'.val = last'.args.token
                /\ _token' = _token
                /\ storage' = storage]_vars

C13_Witness ==
    /\ last.op = "saveTokenEnd" /\ last.outcome = "rejected"
    /\ last.args.cached /\ _token.obj /\ ~_token.saved
    /\ ~blockSaveToken


\* The steps of each lock category, by the operation observed.
RegisterOps == {"register", "deviceReady", "registration", "notification", "error"}
SaveOps == {"saveToken", "saveTokenEnd"}
UnregisterOps == {"unregister", "unregisterEnd"}

\* C14: the three lock categories are independent.  A register(),
\* saveToken() or unregister() call is rejected exactly when its own lock is
\* held, and no step of one category changes the lock of another.
C14_LocksIndependent ==
    [][/\ last'.op \in RegisterOps =>
              (blockSaveToken' = blockSaveToken /\ blockUnregister' = blockUnregister)
       /\ last'.op \in SaveOps =>
              (blockRegistration' = blockRegistration /\ blockUnregister' = blockUnregister)
       /\ last'.op \in UnregisterOps =>
              (blockRegistration' = blockRegistration /\ blockSaveToken' = blockSaveToken)
       /\ last'.op = "register" => (last'.outcome = "rejected" <=> blockRegistration)
       /\ last'.op = "saveToken" => (last'.outcome = "rejected" <=> blockSaveToken)
       /\ last'.op = "unregister" => (last'.outcome = "rejected" <=> blockUnregister)]_vars

\* A register, a save and an unregister in flight at once, the register
\* admitted while the unregister lock was held.
C14_Witness ==
    /\ InFlight # {} /\ saves # EmptyBag /\ unregs # <<>>
    /\ last.op = "register" /\ last.outcome = "admitted" /\ blockUnregister


\* C15: nothing but the awaited event releases a lock.  While an admitted
\* register() call still waits for 'device:ready' the registration lock is
\* held, and while the remote call of an admitted unregister() is
\* outstanding the unregister lock is held.
C15_HeldWhileWaiting ==
    /\ OnceSubscribers # {} => blockRegistration
    /\ unregs # <<>> => blockUnregister


\* C16: getURL(name) returns the entry of settings.core.urls under name when
\* that entry is present and non-empty, and the built-in default for name in
\* every other case; get(name) returns undefined when no settings or no core
\* settings are registered and settings.core[name] otherwise.
C16_ConfigLookup ==
    /\ last.op = "config.getURL" =>
          LET name == last.args.name
              configured == /\ settings.registered /\ settings.hasCore
                            /\ settings.hasUrls
                            /\ name \in DOMAIN settings.urls
                            /\ settings.urls[name] # ""
          IN  last.args.value =
                  IF configured THEN settings.urls[name]
                  ELSE IF name = "api" THEN "https://api.ionic.io" ELSE Undefined
    /\ last.op = "config.get" =>
          LET name == last.args.name
          IN  last.args.value =
                  IF ~settings.registered \/ ~settings.hasCore THEN Undefined
                  ELSE IF name \in DOMAIN settings.core THEN settings.core[name]
                  ELSE Undefined

\* An empty configured entry falls back to the built-in default.
C16_Witness ==
    /\ last.op = "config.getURL" /\ last.args.name = "api"
    /\ settings.hasUrls /\ "api" \in DOMAIN settings.urls /\ settings.urls.api = ""
    /\ last.args.value = "https://api.ionic.io"


\* C17: the registration lock is released only on behalf of the call that
\* holds it.  After a 'registration' event that settled no call (it reached
\* the handlers of a call settled earlier), a register() call still in
\* flight keeps the lock.
C17_ReleasedByHolder ==
    (last.op = "registration" /\ last.outcome = "none" /\ InFlight # {})
        => blockRegistration


\* C18: write-through cache.  Whenever a token is cached, the persisted
\* record holds the same token string; and every step that changes the cache
\* or the record leaves them in agreement: a cached token with its record,
\* or no cached token and no record.
C18_WriteThrough ==
    /\ [](_token.obj => storage = StorageSet(_token.token))
    /\ [][(_token' # _token \/ storage' # storage) =>
              IF _token'.obj THEN storage' = StorageSet(_token'.token)
              ELSE storage' = NoRecord]_vars

\* A registration replaced the record left by an earlier session.
C18_Witness ==
    /\ last.op = "registration"
    /\ _token.obj /\ _token.token = "b" /\ storage = StorageSet("b")


\* C19: reading the current token never raises, also when the store holds
\* no record; so neither a read of `token` nor unregister() ends by raising.
C19_ReadNeverRaises ==
    last.op \in {"readToken", "unregister"} => last.outcome # "threw"


\* C20: the native plugin is initialized only when 'device:ready' is
\* delivered to an admitted register() call that still waits for it, once
\* for each such call; a later emission of 'device:ready' initializes
\* nothing for a call that has already been served.
C20_InitOnDeviceReady ==
    /\ [](installs <= Cardinality({i \in DOMAIN regCalls : regCalls[i] # "waiting"}))
    /\ [][(installs' # installs \/ plugin' # plugin) =>
              /\ last'.op = "deviceReady"
              /\ OnceSubscribers # {}
              /\ installs' = installs + Cardinality(OnceSubscribers)]_vars

\* 'device:ready' emitted again after the only call was served.
C20_Witness ==
    /\ last.op = "deviceReady" /\ last.outcome = "none"
    /\ installs = 1 /\ Len(regCalls) = 1

====
